---- MODULE Spec2Model ----
(***************************************************************************)
(* A model of the speech-synthesis core of SARAL                           *)
(* (backend/app/services/tts_service.py): the text chunkers                *)
(* chunk_hindi_text and chunk_text_by_language, and the three synthesis    *)
(* runs ensure_audio_is_generated, ensure_hindi_audio_is_generated and     *)
(* ensure_language_audio_is_generated.                                     *)
(*                                                                         *)
(* Text is a sequence of characters over a five-letter alphabet that keeps *)
(* every class of character the chunkers tell apart:                       *)
(*   "a"  a letter                                                         *)
(*   " "  whitespace (\s, str.split, str.strip)                            *)
(*   "."  a Latin sentence terminator (one of . ! ?)                       *)
(*   "D"  a Devanagari danda (one of the two dandas)                       *)
(*   "m"  a combining mark: a code unit that extends the grapheme cluster  *)
(*        of the character before it                                       *)
(***************************************************************************)
EXTENDS Integers, Sequences, FiniteSets, TLC

\* ------------------------------------------------------------ bounds
\* The longest text handed to a chunker, the largest max_chunk_length, and
\* the most chunks a unit's script makes.
MaxTextLen == 5
MaxChunkLen == 4
MaxChunks == 2
\* MAX_CHUNK_SIZE of translate_to_language and of
\* generate_hindi_script_with_google, 4000 in the source, on the scale of
\* the texts above.
MAX_CHUNK_SIZE == 3

\* ------------------------------------------------------------ text
Alphabet == {"a", " ", ".", "D", "m"}

RECURSIVE TextsOfLen(_)
TextsOfLen(n) ==
    IF n = 0 THEN {<<>>}
    ELSE {Append(t, c) : t \in TextsOfLen(n - 1), c \in Alphabet}

Texts == UNION {TextsOfLen(n) : n \in 0..MaxTextLen}

IsSpace(c) == c = " "
IsMark(c) == c = "m"

\* len(text): code units.
PyLen(s) == Len(s)

\* grapheme.length(text): extended grapheme clusters. A mark never starts a
\* cluster except at the start of the text.
GraphemeLength(s) ==
    Cardinality({i \in 1..Len(s) : i = 1 \/ ~IsMark(s[i])})

\* str.strip()
RECURSIVE LStrip(_)
LStrip(s) ==
    IF s # <<>> /\ IsSpace(Head(s)) THEN LStrip(Tail(s)) ELSE s

RECURSIVE RStrip(_)
RStrip(s) ==
    IF s # <<>> /\ IsSpace(s[Len(s)]) THEN RStrip(SubSeq(s, 1, Len(s) - 1)) ELSE s

Strip(s) == RStrip(LStrip(s))

\* str.split(): the maximal whitespace-free runs, in order.
RECURSIVE SplitFrom(_, _, _)
SplitFrom(s, i, cur) ==
    IF i > Len(s) THEN (IF cur = <<>> THEN <<>> ELSE <<cur>>)
    ELSE IF IsSpace(s[i])
         THEN (IF cur = <<>> THEN <<>> ELSE <<cur>>) \o SplitFrom(s, i + 1, <<>>)
         ELSE SplitFrom(s, i + 1, Append(cur, s[i]))

Split(s) == SplitFrom(s, 1, <<>>)

\* The first index >= i of s that holds no whitespace (Len(s) + 1 if none).
RECURSIVE SkipSpace(_, _)
SkipSpace(s, i) ==
    IF i <= Len(s) /\ IsSpace(s[i]) THEN SkipSpace(s, i + 1) ELSE i

\* re.split(r'(?<=[T])\s+', text): cut at every maximal run of whitespace
\* that directly follows a character of T; the run is dropped.
RECURSIVE ReSplitFrom(_, _, _, _)
ReSplitFrom(s, i, cur, T) ==
    IF i > Len(s) THEN <<cur>>
    ELSE IF IsSpace(s[i]) /\ i > 1 /\ s[i - 1] \in T
         THEN <<cur>> \o ReSplitFrom(s, SkipSpace(s, i), <<>>, T)
         ELSE ReSplitFrom(s, i + 1, Append(cur, s[i]), T)

ReSplit(s, T) == ReSplitFrom(s, 1, <<>>, T)

LatinTerminators == {"."}
DevanagariTerminators == {"D", "."}

\* ------------------------------------------------------------ languages
\* SUPPORTED_LANGUAGES, cut to two of its entries: one language of
\* complex_script_languages and one outside it.
SUPPORTED_LANGUAGES == [Hindi |-> "hi", Tamil |-> "ta"]

LanguageNames == DOMAIN SUPPORTED_LANGUAGES
LanguageCodes == {SUPPORTED_LANGUAGES[n] : n \in LanguageNames}

is_language_supported(language) ==
    language \in LanguageNames \/ language \in LanguageCodes

\* str.lower() on the identifiers above.
Lower(language) ==
    CASE language = "Hindi" -> "hindi"
      [] language = "Tamil" -> "tamil"
      [] OTHER -> language

complex_script_languages == {"hindi", "bengali", "marathi", "nepali", "gujarati"}

\* ------------------------------------------------------------ chunkers
\* The length a chunker measures with: grapheme.length on the complex-script
\* branch, len otherwise.
TextLength(s, complex) == IF complex THEN GraphemeLength(s) ELSE PyLen(s)

\* `current + piece + 1 > max_chunk_length`: the test both loops of a
\* chunker apply before they append a sentence or a word.
\* (OverflowsLate: the separator taken off the sum instead of added to it.)
OverflowsLate(current_length, piece_length, max_chunk_length) ==
    current_length + piece_length - 1 > max_chunk_length

Overflows(current_length, piece_length, max_chunk_length) ==
    current_length + piece_length + 1 > max_chunk_length

\* `if current_chunk: chunks.append(current_chunk.strip())`
FlushCurrent(chunks, current_chunk) ==
    IF current_chunk # <<>> THEN Append(chunks, Strip(current_chunk)) ELSE chunks

\* `chunks.append(temp_chunk.strip())`: the word loop flushes without
\* testing temp_chunk.
FlushTemp(chunks, temp_chunk) == Append(chunks, Strip(temp_chunk))

\* `if temp_chunk: current_chunk = temp_chunk`: what current_chunk holds
\* after the word loop.
\* (CarryOverForgotten: the assignment left out.)
CarryOverForgotten(temp_chunk, current_chunk) == current_chunk

CarryOver(temp_chunk, current_chunk) ==
    IF temp_chunk # <<>> THEN temp_chunk ELSE current_chunk

\* chunk_text_by_language: `for word in words` (both branches).
RECURSIVE WordLoop(_, _, _, _, _, _)
WordLoop(words, k, chunks, temp_chunk, max_chunk_length, complex) ==
    IF k > Len(words) THEN [chunks |-> chunks, temp_chunk |-> temp_chunk]
    ELSE IF Overflows(TextLength(temp_chunk, complex),
                      TextLength(words[k], complex), max_chunk_length)
         THEN WordLoop(words, k + 1, FlushTemp(chunks, temp_chunk),
                       words[k] \o <<" ">>, max_chunk_length, complex)
         ELSE WordLoop(words, k + 1, chunks,
                       temp_chunk \o words[k] \o <<" ">>, max_chunk_length, complex)

\* chunk_text_by_language: `for sentence in sentences` (both branches),
\* then the final `if current_chunk: chunks.append(current_chunk.strip())`.
RECURSIVE SentenceLoop(_, _, _, _, _, _)
SentenceLoop(sentences, k, chunks, current_chunk, max_chunk_length, complex) ==
    IF k > Len(sentences) THEN FlushCurrent(chunks, current_chunk)
    ELSE LET sentence == sentences[k]
             sentence_length == TextLength(sentence, complex)
         IN  IF Overflows(TextLength(current_chunk, complex), sentence_length,
                          max_chunk_length)
             THEN LET flushed == FlushCurrent(chunks, current_chunk)
                  IN  IF sentence_length > max_chunk_length
                      THEN LET w == WordLoop(Split(sentence), 1, flushed, <<>>,
                                             max_chunk_length, complex)
                           IN  SentenceLoop(sentences, k + 1, w.chunks,
                                   CarryOver(w.temp_chunk, current_chunk),
                                   max_chunk_length, complex)
                      ELSE SentenceLoop(sentences, k + 1, flushed,
                                        sentence \o <<" ">>, max_chunk_length, complex)
             ELSE SentenceLoop(sentences, k + 1, chunks,
                               current_chunk \o sentence \o <<" ">>,
                               max_chunk_length, complex)

IsComplexScript(language) == Lower(language) \in complex_script_languages

\* `return 450 if lang.lower() in complex_script_languages else 500`: the
\* max_chunk_length of a call that passes none.
get_chunk_size_for_language(lang) ==
    IF Lower(lang) \in complex_script_languages THEN 450 ELSE 500

\* `return [text]`: what both chunkers return for a text within
\* max_chunk_length.
\* (WholeTextDropped: a text within the bound returned as no chunk.)
WholeTextDropped(text) == <<>>

WholeText(text) == <<text>>

chunk_text_by_language(text, language, max_chunk_length) ==
    IF IsComplexScript(language)
    THEN IF GraphemeLength(text) <= max_chunk_length THEN WholeText(text)
         ELSE SentenceLoop(ReSplit(text, DevanagariTerminators), 1, <<>>, <<>>,
                           max_chunk_length, TRUE)
    ELSE IF PyLen(text) <= max_chunk_length THEN WholeText(text)
         ELSE SentenceLoop(ReSplit(text, LatinTerminators), 1, <<>>, <<>>,
                           max_chunk_length, FALSE)

\* chunk_hindi_text: `for word in words`.
\* (HindiWordLoopInCodePoints: the words and temp_chunk measured with len
\* instead of grapheme.length.)
HindiWordLoopInCodePoints(words, k, chunks, temp_chunk, max_chunk_length) ==
    WordLoop(words, k, chunks, temp_chunk, max_chunk_length, FALSE)

RECURSIVE HindiWordLoop(_, _, _, _, _)
HindiWordLoop(words, k, chunks, temp_chunk, max_chunk_length) ==
    IF k > Len(words) THEN [chunks |-> chunks, temp_chunk |-> temp_chunk]
    ELSE LET word_grapheme_length == GraphemeLength(words[k])
             temp_chunk_grapheme_length == GraphemeLength(temp_chunk)
         IN  IF Overflows(temp_chunk_grapheme_length, word_grapheme_length,
                          max_chunk_length)
             THEN HindiWordLoop(words, k + 1, FlushTemp(chunks, temp_chunk),
                                words[k] \o <<" ">>, max_chunk_length)
             ELSE HindiWordLoop(words, k + 1, chunks,
                                temp_chunk \o words[k] \o <<" ">>, max_chunk_length)

\* chunk_hindi_text: `for sentence in sentences`, then the final flush.
RECURSIVE HindiSentenceLoop(_, _, _, _, _)
HindiSentenceLoop(sentences, k, chunks, current_chunk, max_chunk_length) ==
    IF k > Len(sentences) THEN FlushCurrent(chunks, current_chunk)
    ELSE LET sentence == sentences[k]
             sentence_grapheme_length == GraphemeLength(sentence)
             current_chunk_grapheme_length == GraphemeLength(current_chunk)
         IN  IF Overflows(current_chunk_grapheme_length, sentence_grapheme_length,
                          max_chunk_length)
             THEN LET flushed == FlushCurrent(chunks, current_chunk)
                  IN  IF sentence_grapheme_length > max_chunk_length
                      THEN LET w == HindiWordLoop(Split(sentence), 1, flushed, <<>>,
                                                  max_chunk_length)
                           IN  HindiSentenceLoop(sentences, k + 1, w.chunks,
                                   CarryOver(w.temp_chunk, current_chunk),
                                   max_chunk_length)
                      ELSE HindiSentenceLoop(sentences, k + 1, flushed,
                                             sentence \o <<" ">>, max_chunk_length)
             ELSE HindiSentenceLoop(sentences, k + 1, chunks,
                                    current_chunk \o sentence \o <<" ">>,
                                    max_chunk_length)

chunk_hindi_text(text, max_chunk_length) ==
    IF GraphemeLength(text) <= max_chunk_length THEN WholeText(text)
    ELSE HindiSentenceLoop(ReSplit(text, DevanagariTerminators), 1, <<>>, <<>>,
                           max_chunk_length)

\* ------------------------------------------------------------ translation
\* _split_into_chunks of language_service.py and of hindi_service.py (the two
\* are the same code). Here " " stands for a space or a newline, so ". " is
\* any of the six sentence_delimiters.

\* The earliest index from `from` at which a delimiter starts, 0 when there
\* is none: `min(delimiter_indices, key=lambda x: x[0])` over `find`.
RECURSIVE FindDelimiter(_, _)
FindDelimiter(remaining_text, from) ==
    IF from >= Len(remaining_text) THEN 0
    ELSE IF remaining_text[from] \in LatinTerminators /\ remaining_text[from + 1] = " "
         THEN from
         ELSE FindDelimiter(remaining_text, from + 1)

\* `while remaining_text:`: the sentences, each with its delimiter.
RECURSIVE DelimitedSentences(_)
DelimitedSentences(remaining_text) ==
    IF remaining_text = <<>> THEN <<>>
    ELSE LET earliest_index == FindDelimiter(remaining_text, 1)
         IN  IF earliest_index = 0 THEN <<remaining_text>>
             ELSE <<SubSeq(remaining_text, 1, earliest_index + 1)>>
                      \o DelimitedSentences(SubSeq(remaining_text, earliest_index + 2,
                                                   Len(remaining_text)))

\* `for sentence in sentences`, then `if current_chunk: chunks.append(...)`.
RECURSIVE GroupSentences(_, _, _, _, _)
GroupSentences(sentences, k, chunks, current_chunk, max_size) ==
    LET flushed == IF current_chunk # <<>> THEN Append(chunks, Strip(current_chunk))
                   ELSE chunks
    IN  IF k > Len(sentences) THEN flushed
        ELSE IF PyLen(current_chunk) + PyLen(sentences[k]) <= max_size
             THEN GroupSentences(sentences, k + 1, chunks,
                                 current_chunk \o sentences[k], max_size)
             ELSE GroupSentences(sentences, k + 1, flushed, sentences[k], max_size)

_split_into_chunks(text, max_size) ==
    GroupSentences(DelimitedSentences(text), 1, <<>>, <<>>, max_size)

\* What a call of _translate_text_ollama comes to: a status other than 200,
\* an exception of requests.post, a 200 whose "response" is empty or blank,
\* a 200 with a translation. It returns None, None, "" and the text.
OllamaOutcomes == {"status_error", "exception", "empty", "text"}

_translate_text_ollama(outcome) ==
    CASE outcome = "text" -> "text"
      [] outcome = "empty" -> ""
      [] OTHER -> "None"

\* ------------------------------------------------------------ state
VARIABLES
    \* a chunker call
    fn,                 \* the chunker called ("none" during a synthesis run)
    text,               \* its text argument
    max_chunk_length,   \* its max_chunk_length argument
    cpc,                \* "call" before the call, "returned" after it
    chunks,             \* the list returned
    rechunk_at,         \* the chunk (from 1) the chunker was called on again,
                        \* 0 while it was not
    rechunked,          \* the list that second call returned
    \* shared
    language,           \* the language argument of the chunker or of the run
    \* a synthesis run
    entry,              \* the run's entry point
    sarvam_api_key,     \* the credential passed in
    pc,                 \* where the run stands
    result,             \* "running", "returned", "ValueError" or "Exception"
    use_local_tts,      \* the backend mode
    tts_client,         \* "None" or "client"
    constructions,      \* calls of SarvamTTS(api_key=...)
    probes,             \* calls of tts_client.test_connection()
    probed,             \* what the probe came to: "not_run", "ok", "fail", "raise"
    voice,              \* the local `voice`, passed as voice=voice in every
                        \* cloud synthesis call ("unbound" while not assigned)
    cloud_calls,        \* calls of a cloud synthesis method
    local_calls,        \* calls of generate_audio_local
    i,                  \* the unit at hand: 0 the title, 1..5 the sections
    script_text,        \* what the script of the unit handled last is, one of
                        \* UnitKinds ("none" before the first unit)
    nchunks,            \* len(chunks) of the unit at hand
    j,                  \* the chunk at hand
    outcomes,           \* what each chunk of the unit at hand came to, in order
    chunk_files,        \* the chunk indices whose segment file was written
    output,             \* per unit, the file at its output path: "absent",
                        \* "empty" (no bytes) or "written"
    assembled,          \* the segments in the output file of the unit just
                        \* assembled, in order (<<>> at any other time)
    ffmpeg_run,         \* what the ffmpeg run of the unit just assembled came
                        \* to ("none" when it was not run, and at any other time)
    copy_run,           \* the same for shutil.copy
    list_file,          \* the chunk indices the list file of the unit just
                        \* assembled names, in order (<<>> when none was written)
    audio_files,        \* the units whose path was appended to audio_files
    successful_generations,
    manifest,           \* the "audio_files" of the dictionary returned
    \* a translation call
    tfn,                \* the function called ("none" at any other time)
    english_script,     \* its text argument (NoneScript for None)
    max_size,           \* the max_size _split_into_chunks is called with
    tpc,                \* "call", "translate" in the chunk loop, "returned"
    split_chunks,       \* the list _split_into_chunks returned
    replies,            \* what _translate_text_ollama returned for each chunk
                        \* so far: "None", "" or "text"
    translated_chunks,  \* the chunks (from 1) whose translation was appended
    translation         \* the value returned

chunkVars == <<fn, text, max_chunk_length, cpc, chunks, rechunk_at, rechunked>>

runVars == <<entry, sarvam_api_key, pc, result, use_local_tts, tts_client,
             constructions, probes, probed, voice, cloud_calls, local_calls, i,
             script_text, nchunks, j,
             outcomes, chunk_files, output, assembled, ffmpeg_run, copy_run,
             list_file, audio_files, successful_generations, manifest>>

translateVars == <<tfn, english_script, max_size, tpc, split_chunks, replies,
                   translated_chunks, translation>>

vars == <<chunkVars, language, runVars, translateVars>>

\* ------------------------------------------------------------ the files
section_order == <<"Introduction", "Methodology", "Results", "Discussion", "Conclusion">>
Units == 0..Len(section_order)
LastUnit == Len(section_order)

\* ------------------------------------------------------------ no run
\* The run variables while only a chunker is called.
NoRun ==
    /\ entry = "none"
    /\ sarvam_api_key = "None"
    /\ pc = "idle"
    /\ result = "running"
    /\ use_local_tts = FALSE
    /\ tts_client = "None"
    /\ constructions = 0
    /\ probes = 0
    /\ probed = "not_run"
    /\ voice = "unbound"
    /\ cloud_calls = 0
    /\ local_calls = 0
    /\ i = 0
    /\ script_text = "none"
    /\ nchunks = 0
    /\ j = 0
    /\ outcomes = <<>>
    /\ chunk_files = <<>>
    /\ output = [u \in Units |-> "absent"]
    /\ assembled = <<>>
    /\ ffmpeg_run = "none"
    /\ copy_run = "none"
    /\ list_file = <<>>
    /\ audio_files = <<>>
    /\ successful_generations = 0
    /\ manifest = <<>>

\* The chunker variables while a run is under way.
NoChunkerCall ==
    /\ fn = "none"
    /\ text = <<>>
    /\ max_chunk_length = 0
    /\ cpc = "idle"
    /\ chunks = <<>>
    /\ rechunk_at = 0
    /\ rechunked = <<>>

\* The translation variables while no translation function is called.
\* A value returned is None, or a string made of the translations of
\* `parts`, joined (the empty string when `parts` is empty).
Pending == [kind |-> "pending", parts |-> <<>>]
ReturnedNone == [kind |-> "None", parts |-> <<>>]
ReturnedString(parts) == [kind |-> "str", parts |-> parts]

NoTranslation ==
    /\ tfn = "none"
    /\ english_script = <<>>
    /\ max_size = 0
    /\ tpc = "idle"
    /\ split_chunks = <<>>
    /\ replies = <<>>
    /\ translated_chunks = <<>>
    /\ translation = Pending

\* ------------------------------------------------------------ chunker calls
ChunkerLanguages == {"Hindi", "hi"}

ChunkInit ==
    /\ fn \in {"chunk_text_by_language", "chunk_hindi_text"}
    /\ text \in Texts
    /\ language \in (IF fn = "chunk_hindi_text" THEN {"Hindi"} ELSE ChunkerLanguages)
    /\ max_chunk_length \in 1..MaxChunkLen
    /\ cpc = "call"
    /\ chunks = <<>>
    /\ rechunk_at = 0
    /\ rechunked = <<>>
    /\ NoRun
    /\ NoTranslation

CallChunkTextByLanguage ==
    /\ cpc = "call"
    /\ fn = "chunk_text_by_language"
    /\ chunks' = chunk_text_by_language(text, language, max_chunk_length)
    /\ cpc' = "returned"
    /\ UNCHANGED <<fn, text, language, max_chunk_length, rechunk_at, rechunked,
                   runVars, translateVars>>

CallChunkHindiText ==
    /\ cpc = "call"
    /\ fn = "chunk_hindi_text"
    /\ chunks' = chunk_hindi_text(text, max_chunk_length)
    /\ cpc' = "returned"
    /\ UNCHANGED <<fn, text, language, max_chunk_length, rechunk_at, rechunked,
                   runVars, translateVars>>

\* The chunker called again, with the same language and max_chunk_length,
\* on one of the chunks it returned.
Rechunk ==
    /\ cpc = "returned"
    /\ \E k \in 1..Len(chunks) :
          /\ rechunk_at' = k
          /\ rechunked' = IF fn = "chunk_hindi_text"
                          THEN chunk_hindi_text(chunks[k], max_chunk_length)
                          ELSE chunk_text_by_language(chunks[k], language,
                                                      max_chunk_length)
    /\ cpc' = "rechunked"
    /\ UNCHANGED <<fn, text, language, max_chunk_length, chunks, runVars,
                   translateVars>>

ChunkNext == CallChunkTextByLanguage \/ CallChunkHindiText \/ Rechunk

ChunkSpec == ChunkInit /\ [][ChunkNext]_vars

\* ------------------------------------------------------------ a synthesis run
Entries == {"ensure_audio_is_generated", "ensure_hindi_audio_is_generated",
            "ensure_language_audio_is_generated"}

\* The credential: None, the empty string, a blank string, a key.
Credentials == {"None", "", " ", "key"}

\* The language argument of ensure_language_audio_is_generated: a supported
\* name, a supported code, an unsupported identifier.
RunLanguages == {"Hindi", "hi", "Klingon"}

\* What a unit's script is: no script (None, or no key in sections_scripts),
\* an empty or whitespace-only script, a script of markup only (which
\* clean_script_for_tts_and_video reduces to ""), a script with words that
\* is within the chunk length of its language, a script with words that is
\* longer than that.
UnitKinds == {"missing", "blank", "markup", "text", "long_text"}

inputs == <<entry, sarvam_api_key, language>>
backend == <<use_local_tts, tts_client, constructions, probes, probed, voice>>
unitVars == <<nchunks, j, outcomes, chunk_files>>
produced == <<output, audio_files, successful_generations>>
NotAssembling ==
    assembled' = <<>> /\ ffmpeg_run' = "none" /\ copy_run' = "none" /\ list_file' = <<>>
NoUnit == nchunks' = 0 /\ j' = 0 /\ outcomes' = <<>> /\ chunk_files' = <<>>

Init ==
    /\ NoChunkerCall
    /\ NoTranslation
    /\ entry \in Entries
    /\ sarvam_api_key \in Credentials
    /\ language \in (CASE entry = "ensure_language_audio_is_generated" -> RunLanguages
                       [] entry = "ensure_hindi_audio_is_generated" -> {"Hindi"}
                       [] OTHER -> {"English"})
    /\ pc = IF entry = "ensure_language_audio_is_generated" THEN "start" ELSE "select"
    /\ result = "running"
    /\ use_local_tts = FALSE
    /\ tts_client = "None"
    /\ constructions = 0
    /\ probes = 0
    /\ probed = "not_run"
    /\ voice = "unbound"
    /\ cloud_calls = 0
    /\ local_calls = 0
    /\ i = 0
    /\ script_text = "none"
    /\ nchunks = 0
    /\ j = 0
    /\ outcomes = <<>>
    /\ chunk_files = <<>>
    /\ output = [u \in Units |-> "absent"]
    /\ assembled = <<>>
    /\ ffmpeg_run = "none"
    /\ copy_run = "none"
    /\ list_file = <<>>
    /\ audio_files = <<>>
    /\ successful_generations = 0
    /\ manifest = <<>>

\* `if not is_language_supported(language): raise ValueError(...)`
CheckLanguage ==
    /\ pc = "start"
    /\ IF is_language_supported(language)
       THEN pc' = "select" /\ result' = result
       ELSE pc' = "done" /\ result' = "ValueError"
    /\ UNCHANGED <<chunkVars, translateVars,
                   inputs, script_text, backend, cloud_calls, local_calls, i,
                   unitVars, produced, assembled, ffmpeg_run, copy_run,
                   list_file, manifest>>

\* `not sarvam_api_key or sarvam_api_key.strip() == ""`
\* (IsBlankKeyUnstripped: the test without its strip().)
IsBlankKeyUnstripped(key) == key \in {"None", ""}

IsBlankKey(key) == key \in {"None", "", " "}

\* The try block around SarvamTTS(...) and test_connection(): local mode when
\* the constructor raises, the probe raises, or the probe returns a falsy value.
\* (FallsBackToLocalOnRaiseOnly: the probe's return value not tested.)
FallsBackToLocalOnRaiseOnly(ctor, probe) == ctor = "raise" \/ probe = "raise"

FallsBackToLocal(ctor, probe) == ctor = "raise" \/ probe # "ok"

\* The voices a caller selects in voice_selections.
Voices == {"meera", "arjun", "vidya"}

\* `voice_selections.get(key, default)`: the default is "meera" in
\* ensure_audio_is_generated and "vidya" in the other two runs.
SelectedVoice(selected) ==
    IF selected # "absent" THEN selected
    ELSE IF entry = "ensure_audio_is_generated" THEN "meera" ELSE "vidya"

\* `if voice == "meera": voice = "vidya" elif voice == "arjun": voice = "karun"`
RemapVoice(v) ==
    CASE v = "meera" -> "vidya"
      [] v = "arjun" -> "karun"
      [] OTHER -> v

\* What `voice` holds after the selection. ensure_audio_is_generated assigns
\* it, remapped, in the branch of a probe that succeeded and nowhere else; the
\* other two runs start from "vidya" and, given a credential, take the
\* caller's selection as it is.
VoiceAfterSelection(blank, selected, local) ==
    IF entry = "ensure_audio_is_generated"
    THEN IF blank \/ local THEN "unbound" ELSE RemapVoice(SelectedVoice(selected))
    ELSE IF blank THEN "vidya" ELSE SelectedVoice(selected)

\* The backend selection of the three runs.
ResolveBackend ==
    /\ pc = "select"
    /\ IF IsBlankKey(sarvam_api_key)
       THEN /\ use_local_tts' = TRUE
            /\ voice' = VoiceAfterSelection(TRUE, "absent", TRUE)
            /\ UNCHANGED <<tts_client, constructions, probes, probed>>
       ELSE \E ctor \in {"ok", "raise"}, probe \in {"ok", "fail", "raise"},
               selected \in Voices \cup {"absent"} :
                /\ constructions' = constructions + 1
                /\ probes' = IF ctor = "ok" THEN probes + 1 ELSE probes
                /\ probed' = IF ctor = "ok" THEN probe ELSE "not_run"
                /\ tts_client' = IF ctor = "ok" THEN "client" ELSE "None"
                /\ use_local_tts' = FallsBackToLocal(ctor, probe)
                /\ voice' = VoiceAfterSelection(FALSE, selected,
                                                FallsBackToLocal(ctor, probe))
    /\ pc' = "unit"
    /\ UNCHANGED <<chunkVars, translateVars,
                   inputs, script_text, result, cloud_calls, local_calls, i,
                   unitVars, produced, assembled, ffmpeg_run, copy_run,
                   list_file, manifest>>

\* The guards in front of a unit: `title_intro_script and
\* title_intro_script.strip()`, `section_name in sections_scripts`,
\* `not script_text or not script_text.strip()`, `if cleaned_text:`. Only
\* ensure_audio_is_generated cleans the script.
\* (UnitSkippedOnlyIfMissing: the strip() tests left out.)
UnitSkippedOnlyIfMissing(kind) == kind = "missing"

UnitSkipped(kind) ==
    \/ kind \in {"missing", "blank"}
    \/ kind = "markup" /\ entry = "ensure_audio_is_generated"

SkipUnit ==
    /\ pc = "unit"
    /\ i <= LastUnit
    /\ \E kind \in UnitKinds : UnitSkipped(kind) /\ script_text' = kind
    /\ i' = i + 1
    /\ NotAssembling
    /\ UNCHANGED <<chunkVars, translateVars, inputs, backend, pc, result, cloud_calls,
                   local_calls, unitVars, produced, manifest>>

\* generate_audio_local: True only when the engine left a non-empty file.
\* (generate_audio_local_unverified: True whenever the engine did not raise.)
LocalOutcomes == {"ok", "empty", "missing", "exception", "not_installed"}

generate_audio_local_unverified(outcome) == outcome \in {"ok", "empty", "missing"}

generate_audio_local(outcome) == outcome = "ok"

\* The file generate_audio_local leaves at output_path.
LocalFile(outcome) ==
    CASE outcome = "ok" -> "written"
      [] outcome = "empty" -> "empty"
      [] OTHER -> "absent"

\* `audio_files.append(path); successful_generations += 1`
\* (CountAtFront: the path inserted at the front of audio_files.)
CountAtFront(u) ==
    /\ audio_files' = <<u>> \o audio_files
    /\ successful_generations' = successful_generations + 1

Count(u) ==
    /\ audio_files' = Append(audio_files, u)
    /\ successful_generations' = successful_generations + 1

\* A unit in local mode: one call of generate_audio_local with the whole text.
LocalUnit ==
    /\ pc = "unit"
    /\ i <= LastUnit
    /\ use_local_tts
    /\ \E kind \in UnitKinds : ~UnitSkipped(kind) /\ script_text' = kind
    /\ \E outcome \in LocalOutcomes :
          /\ output' = [output EXCEPT ![i] = LocalFile(outcome)]
          /\ IF generate_audio_local(outcome)
             THEN Count(i)
             ELSE UNCHANGED <<audio_files, successful_generations>>
    /\ local_calls' = local_calls + 1
    /\ i' = i + 1
    /\ NotAssembling
    /\ UNCHANGED <<chunkVars, translateVars, inputs, backend, pc, result, cloud_calls,
                   unitVars, manifest>>

\* A unit of ensure_audio_is_generated in cloud mode: one call of
\* tts_client.synthesize_long_text, which returns whether it wrote output_path.
synthesize_long_text(ok) == IF ok THEN "written" ELSE "absent"

LongTextUnit ==
    /\ pc = "unit"
    /\ i <= LastUnit
    /\ ~use_local_tts
    /\ entry = "ensure_audio_is_generated"
    /\ \E kind \in UnitKinds : ~UnitSkipped(kind) /\ script_text' = kind
    /\ \E ok \in BOOLEAN :
          /\ output' = [output EXCEPT ![i] = synthesize_long_text(ok)]
          /\ IF ok THEN Count(i)
             ELSE UNCHANGED <<audio_files, successful_generations>>
    /\ cloud_calls' = cloud_calls + 1
    /\ i' = i + 1
    /\ NotAssembling
    /\ UNCHANGED <<chunkVars, translateVars, inputs, backend, pc, result, local_calls,
                   unitVars, manifest>>

\* len(chunks) for a script: a script within the chunk length comes back as
\* the one chunk [text]; a longer one as one chunk (a single over-long word)
\* or several.
ChunkCounts(kind) == IF kind = "long_text" THEN 1..MaxChunks ELSE {1}

\* A unit of the other two runs in cloud mode: the chunker is called, and the
\* chunk loop starts.
ChunkUnit ==
    /\ pc = "unit"
    /\ i <= LastUnit
    /\ ~use_local_tts
    /\ entry # "ensure_audio_is_generated"
    /\ \E kind \in UnitKinds :
          /\ ~UnitSkipped(kind)
          /\ script_text' = kind
          /\ \E n \in ChunkCounts(kind) : nchunks' = n
    /\ j' = 0
    /\ outcomes' = <<>>
    /\ chunk_files' = <<>>
    /\ pc' = "synth"
    /\ NotAssembling
    /\ UNCHANGED <<chunkVars, translateVars, inputs, backend, result, cloud_calls,
                   local_calls, i, produced, manifest>>

\* What one pass of `for j, chunk in enumerate(chunks)` comes to: bytes that
\* were written to chunk_path, an empty response, an exception of
\* synthesize_text, an exception of the write.
ChunkOutcomes == {"bytes", "empty", "exception", "write_error"}

\* The chunk after chunk j: the try/except inside the loop lets it go on.
\* (NextChunkAbortingOnFailure: the try/except around the loop, not in it.)
NextChunkAbortingOnFailure(at, n, outcome) == IF outcome = "bytes" THEN at + 1 ELSE n

\* (NextChunkRetrying: a chunk that failed is submitted again.)
NextChunkRetrying(at, n, outcome) == IF outcome = "bytes" THEN at + 1 ELSE at

NextChunk(at, n, outcome) == at + 1

\* `if audio_bytes and len(audio_bytes) > 0: ...; chunk_files.append(chunk_path)`
\* (SegmentKeptAlways: chunk_path appended whatever the chunk came to.)
SegmentKeptAlways(outcome) == TRUE

SegmentKept(outcome) == outcome = "bytes"

\* One pass of the chunk loop.
\* (SynthesizeChunkFallingBack: a failed chunk makes the run go local.)
SynthesizeChunkFallingBack ==
    /\ pc = "synth"
    /\ j < nchunks
    /\ \E outcome \in ChunkOutcomes :
          /\ outcomes' = Append(outcomes, outcome)
          /\ chunk_files' = IF SegmentKept(outcome) THEN Append(chunk_files, j)
                            ELSE chunk_files
          /\ j' = NextChunk(j, nchunks, outcome)
          /\ use_local_tts' = ~SegmentKept(outcome)
    /\ cloud_calls' = cloud_calls + 1
    /\ pc' = IF j' < nchunks THEN "synth" ELSE "assemble"
    /\ UNCHANGED <<chunkVars, translateVars,
                   inputs, script_text, tts_client, constructions,
                   probes, probed, voice,
                   result, local_calls, i, nchunks, produced, assembled,
                   ffmpeg_run, copy_run, list_file, manifest>>

SynthesizeChunk ==
    /\ pc = "synth"
    /\ j < nchunks
    /\ \E outcome \in ChunkOutcomes :
          /\ outcomes' = Append(outcomes, outcome)
          /\ chunk_files' = IF SegmentKept(outcome) THEN Append(chunk_files, j)
                            ELSE chunk_files
          /\ j' = NextChunk(j, nchunks, outcome)
    /\ cloud_calls' = cloud_calls + 1
    /\ pc' = IF j' < nchunks THEN "synth" ELSE "assemble"
    /\ UNCHANGED <<chunkVars, translateVars,
                   inputs, script_text, backend, result, local_calls, i,
                   nchunks, produced, assembled, ffmpeg_run, copy_run,
                   list_file, manifest>>

\* What the steps of an assembly come to: the write of the list file, the
\* run of ffmpeg (exit 0, CalledProcessError, or no ffmpeg to run), shutil.copy.
ListWrites == {"ok", "error"}
FfmpegRuns == {"ok", "CalledProcessError", "FileNotFoundError"}
Copies == {"ok", "error"}

\* What an assembly comes to: an exception, a unit that is not counted, or
\* a unit counted with its output file holding `segments`.
Raised ==
    [raised |-> TRUE, counted |-> FALSE, segments |-> <<>>, listed |-> <<>>,
     ffmpeg |-> "none", copy |-> "none"]
NotCounted ==
    [raised |-> FALSE, counted |-> FALSE, segments |-> <<>>, listed |-> <<>>,
     ffmpeg |-> "none", copy |-> "none"]
Counted(segments) ==
    [raised |-> FALSE, counted |-> TRUE, segments |-> segments, listed |-> <<>>,
     ffmpeg |-> "none", copy |-> "none"]

\* `shutil.copy(chunk_files[0], path)`, then the unit is counted.
\* (CopyFirstUncounted: the copy made, the unit not counted.)
CopyFirstUncounted(files, copy) ==
    [(IF copy = "ok" THEN [NotCounted EXCEPT !.segments = <<files[1]>>] ELSE Raised)
        EXCEPT !.copy = copy]

CopyFirst(files, copy) ==
    [(IF copy = "ok" THEN Counted(<<files[1]>>) ELSE Raised) EXCEPT !.copy = copy]

\* `subprocess.run(['ffmpeg', ...], check=True)` with its
\* `except subprocess.CalledProcessError`, after the list file is written.
Concatenate(files, list_write, ffmpeg, copy) ==
    IF list_write = "error" THEN Raised
    ELSE [(CASE ffmpeg = "ok" -> Counted(files)
             [] ffmpeg = "CalledProcessError" -> CopyFirst(files, copy)
             [] OTHER -> Raised) EXCEPT !.ffmpeg = ffmpeg, !.listed = files]

\* generate_audio_from_chunks after its loop.
\* (AssembleFromChunksOrRaise: no segment is an error of the run.)
AssembleFromChunksOrRaise(files, list_write, ffmpeg, copy) ==
    IF files = <<>> THEN Raised
    ELSE IF Len(files) = 1 THEN CopyFirst(files, copy)
    ELSE Concatenate(files, list_write, ffmpeg, copy)

AssembleFromChunks(files, list_write, ffmpeg, copy) ==
    IF files = <<>> THEN NotCounted
    ELSE IF Len(files) = 1 THEN CopyFirst(files, copy)
    ELSE Concatenate(files, list_write, ffmpeg, copy)

\* ensure_hindi_audio_is_generated after a chunk loop: `if chunk_files:`.
AssembleHindi(files, list_write, ffmpeg, copy) ==
    IF files = <<>> THEN NotCounted
    ELSE Concatenate(files, list_write, ffmpeg, copy)

\* The assembly of the unit at hand, and the step to the next unit. An
\* exception leaves the run through `except Exception as e: ...; raise`.
Assemble ==
    /\ pc = "assemble"
    /\ \E list_write \in ListWrites, ffmpeg \in FfmpegRuns, copy \in Copies :
          LET r == IF entry = "ensure_hindi_audio_is_generated"
                   THEN AssembleHindi(chunk_files, list_write, ffmpeg, copy)
                   ELSE AssembleFromChunks(chunk_files, list_write, ffmpeg, copy)
          IN  IF r.raised
              THEN /\ pc' = "done"
                   /\ result' = "Exception"
                   /\ assembled' = <<>>
                   /\ ffmpeg_run' = r.ffmpeg
                   /\ copy_run' = r.copy
                   /\ list_file' = r.listed
                   /\ UNCHANGED <<i, produced>>
              ELSE /\ pc' = "unit"
                   /\ result' = result
                   /\ i' = i + 1
                   /\ assembled' = r.segments
                   /\ ffmpeg_run' = r.ffmpeg
                   /\ copy_run' = r.copy
                   /\ list_file' = r.listed
                   /\ IF r.counted
                      THEN /\ output' = [output EXCEPT ![i] = "written"]
                           /\ Count(i)
                      ELSE UNCHANGED produced
    /\ NoUnit
    /\ UNCHANGED <<chunkVars, translateVars, inputs, script_text, backend, cloud_calls,
                   local_calls, manifest>>

\* After the last unit: `if successful_generations == 0: raise ValueError(...)`,
\* else the dictionary of the file names is returned.
Finish ==
    /\ pc = "unit"
    /\ i > LastUnit
    /\ pc' = "done"
    /\ IF successful_generations = 0
       THEN result' = "ValueError" /\ manifest' = manifest
       ELSE result' = "returned" /\ manifest' = audio_files
    /\ NotAssembling
    /\ UNCHANGED <<chunkVars, translateVars,
                   inputs, script_text, backend, cloud_calls, local_calls, i,
                   unitVars, produced>>

Next ==
    \/ CheckLanguage
    \/ ResolveBackend
    \/ SkipUnit
    \/ LocalUnit
    \/ LongTextUnit
    \/ ChunkUnit
    \/ SynthesizeChunk
    \/ Assemble
    \/ Finish

Spec == Init /\ [][Next]_vars

\* ------------------------------------------------------------ translation calls
TranslateFunctions == {"translate_to_language", "generate_hindi_script_with_google"}

\* english_script = None
NoneScript == <<"None">>

TranslateInit ==
    /\ tfn \in TranslateFunctions \cup {"_split_into_chunks"}
    /\ english_script \in
          (IF tfn = "_split_into_chunks" THEN Texts ELSE Texts \cup {NoneScript})
    /\ max_size \in (IF tfn = "_split_into_chunks" THEN 1..MaxChunkLen
                     ELSE {MAX_CHUNK_SIZE})
    /\ language = "Hindi"
    /\ tpc = "call"
    /\ split_chunks = <<>>
    /\ replies = <<>>
    /\ translated_chunks = <<>>
    /\ translation = Pending
    /\ NoChunkerCall
    /\ NoRun

\* A call of _split_into_chunks(text, max_size).
CallSplitIntoChunks ==
    /\ tpc = "call"
    /\ tfn = "_split_into_chunks"
    /\ split_chunks' = _split_into_chunks(english_script, max_size)
    /\ tpc' = "returned"
    /\ UNCHANGED <<chunkVars, language, runVars, tfn, english_script, max_size,
                   replies, translated_chunks, translation>>

\* `if english_script is None or not english_script.strip(): return None`
ReturnNoneForBlank ==
    /\ tpc = "call"
    /\ tfn \in TranslateFunctions
    /\ english_script = NoneScript \/ Strip(english_script) = <<>>
    /\ translation' = ReturnedNone
    /\ tpc' = "returned"
    /\ UNCHANGED <<chunkVars, language, runVars, tfn, english_script, max_size,
                   split_chunks, replies, translated_chunks>>

\* What _translate_text_ollama's reply for the whole script is as a return
\* value.
WholeReply(reply) ==
    CASE reply = "text" -> ReturnedString(<<1>>)
      [] reply = "" -> ReturnedString(<<>>)
      [] OTHER -> ReturnedNone

\* `if len(english_script) <= MAX_CHUNK_SIZE: return _translate_text_ollama(...)`
TranslateWhole ==
    /\ tpc = "call"
    /\ tfn \in TranslateFunctions
    /\ english_script # NoneScript
    /\ Strip(english_script) # <<>>
    /\ PyLen(english_script) <= MAX_CHUNK_SIZE
    /\ \E outcome \in OllamaOutcomes :
          /\ replies' = <<_translate_text_ollama(outcome)>>
          /\ translation' = WholeReply(_translate_text_ollama(outcome))
    /\ tpc' = "returned"
    /\ UNCHANGED <<chunkVars, language, runVars, tfn, english_script, max_size,
                   split_chunks, translated_chunks>>

\* `chunks = _split_into_chunks(english_script, MAX_CHUNK_SIZE)`
SplitScript ==
    /\ tpc = "call"
    /\ tfn \in TranslateFunctions
    /\ english_script # NoneScript
    /\ Strip(english_script) # <<>>
    /\ PyLen(english_script) > MAX_CHUNK_SIZE
    /\ split_chunks' = _split_into_chunks(english_script, MAX_CHUNK_SIZE)
    /\ tpc' = "translate"
    /\ UNCHANGED <<chunkVars, language, runVars, tfn, english_script, max_size,
                   replies, translated_chunks, translation>>

\* One pass of `for chunk in chunks`: `if translated_chunk:
\* translated_chunks.append(translated_chunk)`.
TranslateChunk ==
    /\ tpc = "translate"
    /\ Len(replies) < Len(split_chunks)
    /\ \E outcome \in OllamaOutcomes :
          LET translated_chunk == _translate_text_ollama(outcome)
          IN  /\ replies' = Append(replies, translated_chunk)
              /\ translated_chunks' =
                    IF translated_chunk = "text"
                    THEN Append(translated_chunks, Len(replies) + 1)
                    ELSE translated_chunks
    /\ UNCHANGED <<chunkVars, language, runVars, tfn, english_script, max_size,
                   tpc, split_chunks, translation>>

\* `return ' '.join(translated_chunks)`
ReturnJoined ==
    /\ tpc = "translate"
    /\ Len(replies) = Len(split_chunks)
    /\ translation' = ReturnedString(translated_chunks)
    /\ tpc' = "returned"
    /\ UNCHANGED <<chunkVars, language, runVars, tfn, english_script, max_size,
                   split_chunks, replies, translated_chunks>>

TranslateNext ==
    \/ CallSplitIntoChunks
    \/ ReturnNoneForBlank
    \/ TranslateWhole
    \/ SplitScript
    \/ TranslateChunk
    \/ ReturnJoined

TranslateSpec == TranslateInit /\ [][TranslateNext]_vars

\* ------------------------------------------------------------ properties
\* The unit the chunker called measures length in.
ComplexCall == fn = "chunk_hindi_text" \/ IsComplexScript(language)
UnitLength(s) == TextLength(s, ComplexCall)

\* " ".join(chunks)
RECURSIVE JoinChunks(_)
JoinChunks(cs) ==
    IF cs = <<>> THEN <<>>
    ELSE IF Len(cs) = 1 THEN cs[1]
    ELSE cs[1] \o <<" ">> \o JoinChunks(Tail(cs))

\* A single whitespace-free word.
IsOneWord(s) == Split(s) = <<s>>

\* C1: no chunk returned by chunk_text_by_language or chunk_hindi_text is
\* longer than max_chunk_length (grapheme clusters on the complex-script
\* branch, code units otherwise), except a chunk that is one whitespace-free
\* word longer than max_chunk_length.
C1_ChunksWithinBound ==
    cpc = "returned" =>
        \A k \in 1..Len(chunks) :
            \/ UnitLength(chunks[k]) <= max_chunk_length
            \/ IsOneWord(chunks[k])

\* C1's case: a text split into several chunks, one of them an over-long
\* word, another exactly max_chunk_length long.
C1_Witness ==
    /\ cpc = "returned"
    /\ Len(chunks) >= 2
    /\ \E k \in 1..Len(chunks) :
          UnitLength(chunks[k]) > max_chunk_length /\ IsOneWord(chunks[k])
    /\ \E k \in 1..Len(chunks) :
          chunks[k] # <<>> /\ UnitLength(chunks[k]) = max_chunk_length

\* C2: for a text longer than max_chunk_length, the chunks joined by single
\* spaces hold the words of the text: each once, in the order of the text.
C2_ChunksReproduceText ==
    (cpc = "returned" /\ UnitLength(text) > max_chunk_length) =>
        Split(JoinChunks(chunks)) = Split(text)

\* C2's case: a text over the bound that came back as several chunks, one
\* of them of several words.
C2_Witness ==
    /\ cpc = "returned"
    /\ UnitLength(text) > max_chunk_length
    /\ Len(chunks) >= 2
    /\ \E k \in 1..Len(chunks) : Len(Split(chunks[k])) >= 2

\* C3: a text of at most max_chunk_length comes back as exactly one chunk,
\* the trimmed text.
C3_ShortTextIsOneTrimmedChunk ==
    (cpc = "returned" /\ UnitLength(text) <= max_chunk_length) =>
        chunks = <<Strip(text)>>

\* C4: an empty or whitespace-only text, of any length, comes back as no
\* chunk at all.
C4_BlankTextHasNoChunks ==
    (cpc = "returned" /\ Strip(text) = <<>>) => chunks = <<>>

\* The credential is missing, empty or blank.
BlankCredential == sarvam_api_key \in {"None", "", " "}

\* The run is past its backend selection.
Resolved ==
    /\ pc \in {"unit", "synth", "assemble", "done"}
    /\ ~(entry = "ensure_language_audio_is_generated"
         /\ ~is_language_supported(language))

\* C5: with a missing, empty or blank credential the run is in local mode
\* from its selection on, and never constructs a cloud client, never probes,
\* never calls a cloud synthesis method.
C5_BlankCredentialIsLocal ==
    BlankCredential =>
        /\ constructions = 0
        /\ probes = 0
        /\ tts_client = "None"
        /\ cloud_calls = 0
        /\ Resolved => use_local_tts

\* C5's case: a run with a blank (whitespace) credential that returned a
\* manifest of units the local engine made.
C5_Witness ==
    /\ sarvam_api_key = " "
    /\ result = "returned"
    /\ local_calls >= 2
    /\ Len(manifest) >= 1

\* C6: with a credential, the run is in cloud mode if and only if the client
\* was constructed and the probe returned success; in every other case
\* (constructor raised, probe raised, probe returned failure) it is in local
\* mode and goes on: the selection itself never ends the run.
C6_CloudIffProbeSucceeded ==
    (~BlankCredential /\ Resolved) =>
        /\ constructions = 1
        /\ ~use_local_tts <=> (tts_client = "client" /\ probed = "ok")
        /\ use_local_tts => result # "Exception"

\* C6's case: a probe that returned failure, and the run that went on in
\* local mode to return a manifest.
C6_Witness ==
    /\ sarvam_api_key = "key"
    /\ probed = "fail"
    /\ use_local_tts
    /\ result = "returned"
    /\ local_calls >= 1

\* C7: the backend is resolved at most once, before any unit is processed;
\* after that neither the mode changes nor a client is constructed or probed
\* again, so a run in cloud mode never calls the local engine, whatever its
\* chunks come to.
C7_ResolvedOnce ==
    /\ [](/\ constructions <= 1
          /\ probes <= 1
          /\ pc \in {"start", "select"} => (cloud_calls = 0 /\ local_calls = 0)
          /\ (Resolved /\ ~use_local_tts) => local_calls = 0
          /\ (Resolved /\ use_local_tts) => cloud_calls = 0)
    /\ [][pc \notin {"start", "select"} =>
            /\ use_local_tts' = use_local_tts
            /\ tts_client' = tts_client
            /\ constructions' = constructions
            /\ probes' = probes]_vars

\* C7's case: a cloud run in which every chunk of a unit failed, and the
\* next unit is synthesized by the cloud backend all the same.
C7_Witness ==
    /\ ~use_local_tts
    /\ pc = "synth"
    /\ outcomes # <<>>
    /\ cloud_calls > Len(outcomes)
    /\ successful_generations = 0
    /\ local_calls = 0

\* The chunk indices (from 0) whose outcome was bytes written, in order.
RECURSIVE Synthesized(_)
Synthesized(os) ==
    IF os = <<>> THEN <<>>
    ELSE LET n == Len(os)
         IN  Synthesized(SubSeq(os, 1, n - 1))
                 \o (IF os[n] = "bytes" THEN <<n - 1>> ELSE <<>>)

\* C8: in cloud mode, when the chunk loop of a unit ends every chunk of the
\* unit was attempted whatever the others came to, the segment list holds
\* exactly the chunks that synthesized, and an assembly whose ffmpeg run did
\* not fail puts exactly those segments into the unit's output file.
C8_ChunkFailuresAreIndependent ==
    /\ [](pc = "assemble" =>
            /\ Len(outcomes) = nchunks
            /\ chunk_files = Synthesized(outcomes))
    /\ [][(/\ pc = "assemble"
           /\ chunk_files # <<>>
           /\ pc' = "unit"
           /\ ffmpeg_run' \in {"none", "ok"}) =>
              /\ output'[i] = "written"
              /\ assembled' = chunk_files]_vars

\* C8's case: the first chunk of a unit failed, the second synthesized and
\* is what the unit's output file holds.
C8_Witness ==
    /\ pc = "unit"
    /\ assembled = <<1>>
    /\ i >= 1
    /\ output[i - 1] = "written"

\* C9: a run returns a manifest if and only if at least one unit was
\* generated successfully, and with no unit generated it raises ValueError.
C9_ManifestIffSomeUnitSucceeded ==
    pc = "done" =>
        /\ result = "returned" <=> successful_generations >= 1
        /\ successful_generations = 0 => result = "ValueError"

InSeq(u, seq) == \E k \in 1..Len(seq) : seq[k] = u

\* C10: a unit is counted and listed in the manifest only if its output file
\* was written at its output path. (The units of ensure_audio_is_generated
\* in cloud mode are left out: the SDK's synthesize_long_text writes those.)
C10_CountedOnlyIfWritten ==
    ~(entry = "ensure_audio_is_generated" /\ ~use_local_tts) =>
        /\ successful_generations = Len(audio_files)
        /\ \A u \in Units : InSeq(u, audio_files) => output[u] = "written"
        /\ \A u \in Units : InSeq(u, manifest) => output[u] = "written"

\* C10's case: a run that returned a manifest of some units while the local
\* engine left an empty file for one unit and none for another.
C10_Witness ==
    /\ result = "returned"
    /\ Len(manifest) >= 1
    /\ \E u \in Units : output[u] = "empty" /\ ~InSeq(u, manifest)
    /\ \E u \in Units : output[u] = "absent" /\ ~InSeq(u, manifest)

\* C11: when a unit has two or more segments and the ffmpeg run fails
\* (CalledProcessError), the copy that follows writes the first segment, and
\* only that one, to the unit's output path, the unit is counted and listed,
\* and the run goes on with the next unit.
C11_FailedConcatenationKeepsFirstSegment ==
    [][(/\ pc = "assemble"
        /\ Len(chunk_files) >= 2
        /\ ffmpeg_run' = "CalledProcessError"
        /\ copy_run' = "ok") =>
           /\ output'[i] = "written"
           /\ assembled' = <<chunk_files[1]>>
           /\ successful_generations' = successful_generations + 1
           /\ audio_files' = Append(audio_files, i)
           /\ result' = "running"
           /\ pc' = "unit"
           /\ i' = i + 1]_vars

\* C11's case: the ffmpeg run of a unit of two segments failed, the unit's
\* output file holds the first segment, and the run stands at the next unit.
C11_Witness ==
    /\ pc = "unit"
    /\ result = "running"
    /\ i >= 1
    /\ i <= LastUnit
    /\ output[i - 1] = "written"
    /\ InSeq(i - 1, audio_files)
    /\ ffmpeg_run = "CalledProcessError"
    /\ assembled = <<0>>
    /\ list_file = <<0, 1>>

\* C12: in every cloud run, a unit with exactly one segment is assembled by
\* a copy of that segment to the unit's output path: no list file is
\* written and ffmpeg is not run.
C12_SingleSegmentIsCopied ==
    [][(/\ pc = "assemble"
        /\ ~use_local_tts
        /\ Len(chunk_files) = 1) =>
           /\ ffmpeg_run' = "none"
           /\ list_file' = <<>>
           /\ copy_run' # "none"
           /\ copy_run' = "ok" =>
                 (output'[i] = "written" /\ assembled' = chunk_files)]_vars

\* The units of `seq` are in the fixed order: the title, then the sections
\* in the order of section_order, none twice.
InFixedOrder(seq) == \A a, b \in 1..Len(seq) : a < b => seq[a] < seq[b]

\* C13: the units are handled one at a time in the fixed order TitleIntro,
\* Introduction, Methodology, Results, Discussion, Conclusion: the unit at
\* hand only ever moves to the next one, and not while its chunks are being
\* synthesized; a synthesis call is made only when every earlier unit is
\* finished and no later unit has been touched; and audio_files and the
\* manifest returned list the produced units in that order.
C13_UnitsInFixedOrder ==
    /\ [](/\ InFixedOrder(audio_files)
          /\ InFixedOrder(manifest)
          /\ \A u \in Units : (output[u] # "absent" \/ InSeq(u, audio_files)) => u < i
          /\ (outcomes # <<>> \/ chunk_files # <<>>) => pc \in {"synth", "assemble"}
          /\ result = "returned" => (i = LastUnit + 1 /\ manifest = audio_files))
    /\ [][/\ i' # i => (i' = i + 1 /\ pc \in {"unit", "assemble"})
          /\ (cloud_calls' # cloud_calls \/ local_calls' # local_calls) =>
                /\ pc \in {"unit", "synth"}
                /\ i <= LastUnit
                /\ \A u \in Units : u >= i => output[u] = "absent"]_vars

\* C13's case: a cloud run of ensure_language_audio_is_generated that
\* produced all six units and returned them in the fixed order.
C13_Witness ==
    /\ entry = "ensure_language_audio_is_generated"
    /\ ~use_local_tts
    /\ result = "returned"
    /\ manifest = <<0, 1, 2, 3, 4, 5>>

\* C14: a unit whose script is missing, empty or whitespace-only is passed
\* over: no chunker call, no synthesis call, no assembly, no file, no
\* exception; the run goes on with the next unit, and a run in which some
\* unit was generated does not end with the ValueError of an empty run.
C14_BlankUnitIsSkipped ==
    /\ [][(/\ pc = "unit"
           /\ i <= LastUnit
           /\ script_text' \in {"missing", "blank"}) =>
              /\ cloud_calls' = cloud_calls
              /\ local_calls' = local_calls
              /\ nchunks' = 0
              /\ chunk_files' = <<>>
              /\ list_file' = <<>>
              /\ ffmpeg_run' = "none"
              /\ copy_run' = "none"
              /\ output' = output
              /\ audio_files' = audio_files
              /\ successful_generations' = successful_generations
              /\ result' = "running"
              /\ pc' = "unit"
              /\ i' = i + 1]_vars
    /\ []((result = "ValueError" /\ is_language_supported(language)) =>
             successful_generations = 0)

\* C14's case: a cloud run whose title was generated, whose sections were
\* all passed over, the last of them a whitespace-only script, and which
\* returned the title.
C14_Witness ==
    /\ ~use_local_tts
    /\ result = "returned"
    /\ script_text = "blank"
    /\ cloud_calls = 1
    /\ manifest = <<0>>

\* C15: when no chunk of a unit synthesized, nothing is assembled: no list
\* file, no ffmpeg run, no copy, no output file; the unit is neither counted
\* nor listed, no exception is raised, and the run goes on with the next
\* unit; a manifest returned later does not name the unit.
C15_UnitWithoutSegmentsIsDropped ==
    /\ [][(pc = "assemble" /\ chunk_files = <<>>) =>
              /\ list_file' = <<>>
              /\ ffmpeg_run' = "none"
              /\ copy_run' = "none"
              /\ output' = output
              /\ output[i] = "absent"
              /\ audio_files' = audio_files
              /\ successful_generations' = successful_generations
              /\ result' = "running"
              /\ pc' = "unit"
              /\ i' = i + 1]_vars
    /\ [](\A u \in Units :
             (~use_local_tts /\ output[u] = "absent") => ~InSeq(u, manifest))

\* C15's case: in a Hindi cloud run the title has words, both of its chunks
\* were sent to the cloud backend and failed, the title has no output file
\* and is not counted, and the run stands at the first section.
C15_Witness ==
    /\ entry = "ensure_hindi_audio_is_generated"
    /\ ~use_local_tts
    /\ result = "running"
    /\ pc = "unit"
    /\ i = 1
    /\ script_text = "long_text"
    /\ cloud_calls = 2
    /\ output[0] = "absent"
    /\ successful_generations = 0

\* C16: a run ends in one of two ways only, the manifest returned or the
\* ValueError of a run in which no unit was generated: no failure of a
\* chunk, of the local engine, of ffmpeg, of a copy or of a list-file write
\* leaves the run as an exception, and units already generated are returned.
C16_OnlyTotalFailurePropagates ==
    /\ result \in {"running", "returned", "ValueError"}
    /\ result = "ValueError" => successful_generations = 0
    /\ (pc = "done" /\ successful_generations >= 1) =>
          (result = "returned" /\ manifest = audio_files)

\* C17: in every run, no cloud synthesis call is made with the logical
\* voice name "meera" or "arjun": what is passed is the backend voice they
\* are remapped to.
C17_LogicalVoicesAreRemapped ==
    [][cloud_calls' # cloud_calls => voice \notin {"meera", "arjun", "unbound"}]_vars

\* C18: in local mode as in cloud mode, a synthesis backend is only ever
\* called from the chunk loop of a unit, once for the chunk at hand, so a
\* script longer than the chunk length is never handed over in one call.
\* (The cloud calls of ensure_audio_is_generated are left out: there the SDK's
\* synthesize_long_text is given the script and max_chunk_length.)
C18_EveryCallIsForOneChunk ==
    [][(\/ local_calls' # local_calls
        \/ (cloud_calls' # cloud_calls /\ entry # "ensure_audio_is_generated")) =>
           /\ pc = "synth"
           /\ j < nchunks
           /\ j' = j + 1
           /\ local_calls' + cloud_calls' = local_calls + cloud_calls + 1
           /\ ~(pc = "unit" /\ script_text' = "long_text")]_vars

\* C19: a chunk the chunker returned that is within max_chunk_length, given
\* back to the chunker with the same language and the same max_chunk_length,
\* comes back as exactly one chunk, the chunk itself, unchanged.
C19_RechunkingIsIdentity ==
    (cpc = "rechunked" /\ UnitLength(chunks[rechunk_at]) <= max_chunk_length) =>
        rechunked = <<chunks[rechunk_at]>>

\* C19's case: a text over the bound split into several chunks, and one of
\* them, of two words and within the bound, chunked again.
C19_Witness ==
    /\ cpc = "rechunked"
    /\ UnitLength(text) > max_chunk_length
    /\ Len(chunks) >= 2
    /\ Len(Split(chunks[rechunk_at])) >= 2
    /\ UnitLength(chunks[rechunk_at]) <= max_chunk_length
    /\ rechunked = <<chunks[rechunk_at]>>

\* The chunk indices of `seq` rise strictly: chunk order, none twice.
InChunkOrder(seq) == \A a, b \in 1..Len(seq) : a < b => seq[a] < seq[b]

\* C20: the list file written for a unit names the segment files of exactly
\* the chunks that synthesized, in rising chunk order and none twice; ffmpeg
\* is run on that list only, and when it succeeds the unit's output file
\* holds those segments in that order.
C20_ListFileNamesSegmentsInOrder ==
    /\ [](/\ InChunkOrder(chunk_files)
          /\ InChunkOrder(list_file)
          /\ InChunkOrder(assembled)
          /\ \A k \in 1..Len(chunk_files) :
                chunk_files[k] < Len(outcomes) /\ outcomes[chunk_files[k] + 1] = "bytes"
          /\ \A c \in 1..Len(outcomes) :
                outcomes[c] = "bytes" => InSeq(c - 1, chunk_files))
    /\ [][pc = "assemble" =>
              /\ list_file' \in {<<>>, chunk_files}
              /\ ffmpeg_run' # "none" => (list_file' = chunk_files /\ list_file' # <<>>)
              /\ ffmpeg_run' = "ok" => assembled' = list_file']_vars

\* C20's case: both chunks of a unit synthesized, the list file names them
\* in chunk order, and the ffmpeg run put them into the output file.
C20_Witness ==
    /\ pc = "unit"
    /\ i >= 1
    /\ list_file = <<0, 1>>
    /\ ffmpeg_run = "ok"
    /\ assembled = <<0, 1>>
    /\ output[i - 1] = "written"

\* The sentence terminators of the chunker called, and the sentences it
\* splits a text into.
TerminatorsOfCall == IF ComplexCall THEN DevanagariTerminators ELSE LatinTerminators
SentencesOf(s) == ReSplit(s, TerminatorsOfCall)

\* C21: where the sentences of a text are accumulated (a text over the bound,
\* none of its sentences empty or over it), a chunk ends before a sentence only when
\* the chunk joined to that sentence by one space would be longer than
\* max_chunk_length; a sentence that still fits, the joined chunk being
\* exactly max_chunk_length long included, is appended.
C21_SentencesAccumulateGreedily ==
    (/\ cpc = "returned"
     /\ UnitLength(text) > max_chunk_length
     /\ \A n \in 1..Len(SentencesOf(text)) :
           /\ SentencesOf(text)[n] # <<>>
           /\ UnitLength(SentencesOf(text)[n]) <= max_chunk_length) =>
        \A k \in 1..(Len(chunks) - 1) :
            UnitLength(chunks[k] \o <<" ">> \o SentencesOf(chunks[k + 1])[1])
                > max_chunk_length

\* C22: nothing is attempted twice. Every pass of a chunk loop submits the
\* chunk at hand once and moves to the next chunk whatever it came to; a unit
\* is assembled in one step, with at most one ffmpeg run, and the run then
\* leaves the unit for good; in local mode, and in the cloud mode of
\* ensure_audio_is_generated, a unit takes one call.
C22_NoRetries ==
    /\ [](/\ Len(outcomes) = j
          /\ j <= nchunks
          /\ local_calls <= i
          /\ entry = "ensure_audio_is_generated" => cloud_calls <= i
          /\ cloud_calls <= (IF pc = "done" THEN i + 1 ELSE i) * MaxChunks + j)
    /\ [][/\ pc = "synth" =>
                /\ j' = j + 1
                /\ cloud_calls' = cloud_calls + 1
                /\ i' = i
          /\ pc = "assemble" =>
                /\ pc' \in {"unit", "done"}
                /\ pc' = "unit" => i' = i + 1
                /\ cloud_calls' = cloud_calls
          /\ i' >= i
          /\ pc = "done" => pc' = "done"]_vars

\* C22's case: the first chunk of a unit raised, the second synthesized,
\* two calls were made in all, and the unit's ffmpeg run failed: the run is
\* at the next unit with the first chunk not submitted again and ffmpeg not
\* run again.
C22_Witness ==
    /\ entry = "ensure_hindi_audio_is_generated"
    /\ pc = "unit"
    /\ i = 1
    /\ cloud_calls = 2
    /\ list_file = <<1>>
    /\ ffmpeg_run = "CalledProcessError"
    /\ assembled = <<1>>

\* ------------------------------------------------------------ C23
\* C23: every chunk _split_into_chunks(text, max_size) returns is at most
\* max_size long, also for a text that is one sentence (no delimiter in it)
\* longer than max_size.
C23_SplitChunksWithinMaxSize ==
    (tpc = "returned" /\ tfn = "_split_into_chunks") =>
        \A k \in 1..Len(split_chunks) : PyLen(split_chunks[k]) <= max_size

\* ------------------------------------------------------------ C24
\* A reply of None: the backend call failed (a status other than 200 or an
\* exception).
BackendFailed == \E k \in 1..Len(replies) : replies[k] = "None"

\* C24: translate_to_language and generate_hindi_script_with_google return
\* None when a backend call of theirs failed, whether the script was within
\* MAX_CHUNK_SIZE or was split: never a string, empty or with the failed
\* chunks missing.
C24_FailedTranslationReturnsNone ==
    (tpc = "returned" /\ tfn \in TranslateFunctions /\ BackendFailed) =>
        translation = ReturnedNone

\* ------------------------------------------------------------ C25
\* C25: a chunker never returns an empty chunk. For a text that is not blank
\* and a max_chunk_length of 1 or more, every chunk returned holds at least
\* one word, also when the word loop meets, first in an over-long sentence,
\* a word of max_chunk_length or more.
C25_NoEmptyChunk ==
    (cpc = "returned" /\ Strip(text) # <<>> /\ max_chunk_length >= 1) =>
        \A k \in 1..Len(chunks) : Split(chunks[k]) # <<>>

\* ------------------------------------------------------------ C26
\* The name of the language an accepted identifier stands for: the
\* identifier when it is a name, the name with that code when it is a code.
LanguageNameOf(identifier) ==
    IF identifier \in LanguageNames THEN identifier
    ELSE CHOOSE name \in LanguageNames : SUPPORTED_LANGUAGES[name] = identifier

\* C26: the chunking of a language is_language_supported accepts does not
\* depend on the form of its identifier. Passed by code, the language gets
\* the default bound, the length unit and the delimiters it gets passed by
\* name: the chunks of a call are those of the call with the name.
C26_PolicyIgnoresIdentifierForm ==
    (cpc = "returned" /\ fn = "chunk_text_by_language"
     /\ is_language_supported(language)) =>
        /\ get_chunk_size_for_language(language)
             = get_chunk_size_for_language(LanguageNameOf(language))
        /\ IsComplexScript(language) = IsComplexScript(LanguageNameOf(language))
        /\ chunks = chunk_text_by_language(text, LanguageNameOf(language),
                                           max_chunk_length)

\* ------------------------------------------------------------ C27
\* C27: the two complex-script chunkers agree. For every text and every
\* max_chunk_length, chunk_hindi_text(text, max_chunk_length) returns the
\* chunks chunk_text_by_language(text, 'hindi', max_chunk_length) returns,
\* whichever of the two was called.
C27_HindiChunkersAgree ==
    cpc = "returned" =>
        /\ fn = "chunk_hindi_text" =>
             chunks = chunk_text_by_language(text, "hindi", max_chunk_length)
        /\ (fn = "chunk_text_by_language" /\ IsComplexScript(language)) =>
             chunks = chunk_hindi_text(text, max_chunk_length)

\* chunk_hindi_text has returned several chunks for a text with a combining
\* mark and a danda in it, one sentence of which went through the word loop.
C27_Witness ==
    /\ cpc = "returned"
    /\ fn = "chunk_hindi_text"
    /\ \E p \in 1..Len(text) : text[p] = "m"
    /\ \E p \in 1..Len(text) : text[p] = "D"
    /\ \E n \in 1..Len(ReSplit(text, DevanagariTerminators)) :
          GraphemeLength(ReSplit(text, DevanagariTerminators)[n]) > max_chunk_length
    /\ Len(chunks) >= 2
    /\ chunks = chunk_text_by_language(text, "hindi", max_chunk_length)

====
